---------------------------- MODULE Spec2Model ----------------------------
(***************************************************************************)
(* A model of script.py, the ingredient-list extractor of demo-tags.       *)
(*                                                                         *)
(* A Python str is a sequence of one-character strings.  Positions are     *)
(* TLA+'s (from 1); where the code keeps a Python offset (cut_pos,         *)
(* m.start(), m.end()) the model keeps the same 0-based number.            *)
(* Python's None is the record None, a returned str s is Some(s).          *)
(***************************************************************************)
EXTENDS Integers, Sequences, FiniteSets, TLC

VARIABLES
    pc,           \* position of extract_ingredients_from_pdf, or of the unit call
    doc,          \* the PDF: what the decoder, the rasterizer and the OCR engine yield
    text,         \* local `text` of extract_ingredients_from_pdf
    ingredients,  \* local `ingredients` of extract_ingredients_from_pdf
    result,       \* what extract_ingredients_from_pdf returned
    calls,        \* the calls extract_ingredients_from_pdf has made, in order
    arg,          \* argument of a function called on its own
    out           \* what that function returned

vars == <<pc, doc, text, ingredients, result, calls, arg, out>>

(***************************************************************************)
(* Python values                                                           *)
(***************************************************************************)
None == [some |-> FALSE, val |-> << >>]
Some(s) == [some |-> TRUE, val |-> s]
\* Python truthiness of a `str | None`: None and "" are false
Truthy(r) == r.some /\ r.val # << >>

(***************************************************************************)
(* Characters                                                              *)
(***************************************************************************)
UpperLetters == <<"A","B","C","D","E","F","G","H","I","J","K","L","M","N","O","P","Q","R","S","T","U","V","W","X","Y","Z","É","Ó","Á">>
LowerLetters == <<"a","b","c","d","e","f","g","h","i","j","k","l","m","n","o","p","q","r","s","t","u","v","w","x","y","z","é","ó","á">>
Range(f) == {f[i] : i \in DOMAIN f}
UpperSet == Range(UpperLetters)
Digits == {"0","1","2","3","4","5","6","7","8","9"}
\* \w of a str pattern: letters, digits and the underscore
WordChars == UpperSet \cup Range(LowerLetters) \cup Digits \cup {"_"}
\* \s of a str pattern, and what str.strip() removes (the ASCII members)
WhiteSpace == {" ", "\t", "\n", "\r", "\f"}
\* the line boundaries of str.splitlines() (the ASCII members)
LineBreaks == {"\n", "\r", "\f"}

ToLower == [c \in UpperSet |-> LowerLetters[CHOOSE i \in DOMAIN UpperLetters : UpperLetters[i] = c]]
\* re.IGNORECASE compares the case-folded characters
Lower(c) == IF c \in UpperSet THEN ToLower[c] ELSE c
IsSpace(c) == c \in WhiteSpace
IsDigit(c) == c \in Digits
IsWord(c) == c \in WordChars

(***************************************************************************)
(* Strings                                                                 *)
(***************************************************************************)
\* s[a:] for a 0-based offset a
From(s, a) == SubSeq(s, a + 1, Len(s))
\* s[:b] for a 0-based offset b
Upto(s, b) == SubSeq(s, 1, b)

RECURSIVE LStrip(_, _)
LStrip(s, chars) ==
    IF s # << >> /\ Head(s) \in chars THEN LStrip(Tail(s), chars) ELSE s

RECURSIVE RStrip(_, _)
RStrip(s, chars) ==
    IF s # << >> /\ s[Len(s)] \in chars THEN RStrip(SubSeq(s, 1, Len(s) - 1), chars) ELSE s

\* str.strip(chars)
StripChars(s, chars) == RStrip(LStrip(s, chars), chars)
\* str.strip()
Strip(s) == StripChars(s, WhiteSpace)

\* sep.join(parts)
RECURSIVE Join(_, _)
Join(sep, parts) ==
    IF parts = << >> THEN << >>
    ELSE IF Len(parts) = 1 THEN parts[1]
    ELSE parts[1] \o sep \o Join(sep, Tail(parts))

(***************************************************************************)
(* Regular expressions.  A pattern is a sequence of elements, matched      *)
(* left to right with the backtracking of Python's re: a greedy element    *)
(* takes the most it can and gives back one character at a time while      *)
(* what follows it fails.  Every letter pattern of script.py is compiled   *)
(* with re.IGNORECASE, so a literal holds case-folded characters and is    *)
(* compared with the case-folded text.                                     *)
(***************************************************************************)
Lit(s) == [i \in 1..Len(s) |-> [k |-> "set", c |-> {Lower(s[i])}]]   \* the text s
OneOf(cs) == <<[k |-> "set", c |-> cs]>>          \* [...]
Opt(cs) == <<[k |-> "opt", c |-> cs]>>            \* [...]?
Digit == <<[k |-> "set", c |-> Digits]>>          \* \d
Digit1 == <<[k |-> "plus", c |-> Digits]>>        \* \d+
DigitMN(m, n) == <<[k |-> "rep", c |-> Digits, lo |-> m, hi |-> n]>>  \* \d{m,n}
WS == <<[k |-> "set", c |-> WhiteSpace]>>         \* \s
WS0 == <<[k |-> "star", c |-> WhiteSpace]>>       \* \s*
WS1 == <<[k |-> "plus", c |-> WhiteSpace]>>       \* \s+
WB == <<[k |-> "wb", c |-> {}]>>                  \* \b
Group1 == <<[k |-> "group", c |-> {}]>>           \* (.+) with re.DOTALL, closing the pattern
NL == <<[k |-> "set", c |-> {"\n"}]>>             \* \n

\* \b at position i: exactly one of the characters around it is a word character
AtWordBoundary(t, i) ==
    (i > 1 /\ IsWord(t[i - 1])) # (i <= Len(t) /\ IsWord(t[i]))

\* how many characters of t from position i on are in cs
RECURSIVE RunLen(_, _, _)
RunLen(t, i, cs) ==
    IF i <= Len(t) /\ Lower(t[i]) \in cs THEN 1 + RunLen(t, i + 1, cs) ELSE 0

\* how many characters of t from position i on are not in cs
RECURSIVE RunLenNot(_, _, _)
RunLenNot(t, i, cs) ==
    IF i <= Len(t) /\ t[i] \notin cs THEN 1 + RunLenNot(t, i + 1, cs) ELSE 0

Min(a, b) == IF a < b THEN a ELSE b

\* MatchFrom(t, i, pat, k): elements k.. of pat matched at position i of t.
\* 0 when they do not match; else the position after the match, or, for a
\* pattern that closes with (.+), the position where group 1 starts.
RECURSIVE MatchFrom(_, _, _, _), MatchRep(_, _, _, _, _, _)
MatchFrom(t, i, pat, k) ==
    IF k > Len(pat) THEN i
    ELSE LET e == pat[k] IN
         CASE e.k = "set" ->
                IF i <= Len(t) /\ Lower(t[i]) \in e.c THEN MatchFrom(t, i + 1, pat, k + 1) ELSE 0
           [] e.k = "opt" ->
                MatchRep(t, i, pat, k, Min(RunLen(t, i, e.c), 1), 0)
           [] e.k = "star" ->
                MatchRep(t, i, pat, k, RunLen(t, i, e.c), 0)
           [] e.k = "plus" ->
                MatchRep(t, i, pat, k, RunLen(t, i, e.c), 1)
           [] e.k = "rep" ->
                MatchRep(t, i, pat, k, Min(RunLen(t, i, e.c), e.hi), e.lo)
           [] e.k = "wb" ->
                IF AtWordBoundary(t, i) THEN MatchFrom(t, i, pat, k + 1) ELSE 0
           [] e.k = "group" ->
                IF i <= Len(t) THEN i ELSE 0

\* element k repeated n times, then n - 1, ... down to lo, until the rest matches
MatchRep(t, i, pat, k, n, lo) ==
    IF n < lo THEN 0
    ELSE LET r == MatchFrom(t, i + n, pat, k + 1) IN
         IF r # 0 THEN r ELSE MatchRep(t, i, pat, k, n - 1, lo)

\* re.search(pat, t): the leftmost position the pattern matches at.
\* [found, start, stop]: start is m.start(), stop is what MatchFrom gives
\* less one, that is m.end() (m.start(1) for a pattern closing with (.+)).
NoMatch == [found |-> FALSE, start |-> 0, stop |-> 0]
RECURSIVE SearchFrom(_, _, _)
SearchFrom(t, pat, i) ==
    IF i > Len(t) + 1 THEN NoMatch
    ELSE LET r == MatchFrom(t, i, pat, 1) IN
         IF r # 0 THEN [found |-> TRUE, start |-> i - 1, stop |-> r - 1]
         ELSE SearchFrom(t, pat, i + 1)
Search(pat, t) == SearchFrom(t, pat, 1)

\* re.match(pat, t): the pattern at the start of t
MatchesAtStart(pat, t) == MatchFrom(t, 1, pat, 1) # 0

(***************************************************************************)
(* clean_ingredients_string                                                *)
(***************************************************************************)
\* re.sub(r"\s+", " ", s)
RECURSIVE CollapseWhitespace(_)
CollapseWhitespace(s) ==
    IF s = << >> THEN << >>
    ELSE IF IsSpace(Head(s))
         THEN <<" ">> \o CollapseWhitespace(LStrip(s, WhiteSpace))
         ELSE <<Head(s)>> \o CollapseWhitespace(Tail(s))

\* the characters of s.strip(" \t\n\r;,.")
BoundaryChars == {" ", "\t", "\n", "\r", ";", ",", "."}

\* the two steps the other way round: strip, then collapse
clean_strip_first(s) == CollapseWhitespace(StripChars(s, BoundaryChars))

clean_ingredients_string(s) == StripChars(CollapseWhitespace(s), BoundaryChars)

(***************************************************************************)
(* extract_inline_ingredients                                              *)
(***************************************************************************)
STOP_MARKERS == <<
    NL \o Lit(<<"m","a","n","u","f","a","c","t","u","r","e","d"," ","b","y">>),
    NL \o Lit(<<"m","a","d","e"," ","i","n">>),
    NL \o Lit(<<"w","a","r","n","i","n","g">>),
    NL \o Lit(<<"w","w","w",".">>),
    NL \o Lit(<<"k","e","e","p"," ","o","u","t"," ","o","f"," ","r","e","a","c","h">>),
    NL \o Lit(<<"u","s","o"," ","t">>) \o OneOf({"o", "ó"}) \o Lit(<<"p","i","c","o">>),
    NL \o Lit(<<"m","o","d","o"," ","d","e"," ","e","m","p","l","e","o">>),
    NL \o Lit(<<"m","o","d","e"," ","d","'","e","m","p","l","o","i">>),
    NL \o Lit(<<"k","e","y"," ","i","n","g","r","e","d","i","e","n","t","s">>),
    NL \o Lit(<<"i","n","g","r","e","d","i","e","n","t","e","s"," ","p","r","i","n","c","i","p","a","l","e","s">>) >>

\* the label patterns, each closing with \s*[:\-]\s*(.+)
LabelTail == WB \o WS0 \o OneOf({":", "-"}) \o WS0 \o Group1
patterns == <<
    WB \o Lit(<<"i","n","g","r","e","d","i","e","n","t">>) \o Opt({"s"}) \o LabelTail,
    WB \o Lit(<<"i","n","g","r","e","d","i","e","n","t","s","/","i","n","g","r">>) \o OneOf({"e", "é"}) \o Lit(<<"d","i","e","n","t","s">>) \o LabelTail,
    WB \o Lit(<<"i","n","g","r","e","d","i","e","n","t","e","s">>) \o LabelTail,
    WB \o Lit(<<"i","n","g","r","e","d","i","e","n","t","e","s","/","i","n","g","r","e","d","i","e","n","t","s">>) \o LabelTail >>

\* lines 79-83: the smallest m.start() over the markers that match `after`,
\* len(after) when none does; j is the marker the loop is at
RECURSIVE StopMarkerLoop(_, _, _)
StopMarkerLoop(after, j, cut_pos) ==
    IF j > Len(STOP_MARKERS) THEN cut_pos
    ELSE LET ms == Search(STOP_MARKERS[j], after) IN
         IF ms.found /\ ms.start < cut_pos
         THEN StopMarkerLoop(after, j + 1, ms.start)
         ELSE StopMarkerLoop(after, j + 1, cut_pos)

\* the window as (.+) gives it without re.DOTALL: closed at the first "\n"
CutWindow_firstLine(after) ==
    LET w == Upto(after, RunLenNot(after, 1, {"\n"})) IN
    Upto(w, StopMarkerLoop(w, 1, Len(w)))

\* lines 79-85: after[:cut_pos]
CutWindow(after) == Upto(after, StopMarkerLoop(after, 1, Len(after)))

\* lines 72-89: the loop over the label patterns, at pattern p
RECURSIVE InlineLoop(_, _)
InlineLoop(t, p) ==
    IF p > Len(patterns) THEN None
    ELSE LET m == Search(patterns[p], t) IN
         IF ~m.found THEN InlineLoop(t, p + 1)
         ELSE LET after == From(t, m.stop)
                  found == clean_ingredients_string(CutWindow(after))
              IN IF found # << >> THEN Some(found) ELSE InlineLoop(t, p + 1)

extract_inline_ingredients(t) ==
    IF t = << >> THEN None ELSE InlineLoop(t, 1)

(***************************************************************************)
(* _extract_name_from_line                                                 *)
(***************************************************************************)
RowNumberPrefix == WS0 \o Digit1 \o Opt({".", "-"}) \o WS1          \* ^\s*\d+[\.\-]?\s+
CasNumber == WS \o DigitMN(2, 7) \o Lit(<<"-">>) \o Digit \o Digit \o Lit(<<"-">>) \o Digit \o WB
DecimalQuantity == WS \o Digit1 \o OneOf({".", ","}) \o Digit1      \* \s\d+[.,]\d+
Csp == WS \o Lit(<<"c",".","s",".","p",".">>)                                        \* \sc\.s\.p\.

\* line 96: re.sub of the prefix, which ^ ties to the start of the line
StripRowNumber(line) ==
    LET r == MatchFrom(line, 1, RowNumberPrefix, 1) IN
    IF r # 0 THEN From(line, r - 1) ELSE line

\* the rule whose match starts leftmost, whatever its rank
TruncateRow_leftmost(line) ==
    LET ms == {m \in {Search(CasNumber, line), Search(DecimalQuantity, line), Search(Csp, line)} : m.found} IN
    IF ms = {} THEN Strip(line)
    ELSE Strip(Upto(line, (CHOOSE m \in ms : \A n \in ms : m.start <= n.start).start))

\* lines 98-111: the first rule, in the code's order, that matches
TruncateRow(line) ==
    LET cas == Search(CasNumber, line)
        dec == Search(DecimalQuantity, line)
        csp == Search(Csp, line)
    IN IF cas.found THEN Strip(Upto(line, cas.start))
       ELSE IF dec.found THEN Strip(Upto(line, dec.start))
       ELSE IF csp.found THEN Strip(Upto(line, csp.start))
       ELSE Strip(line)

_extract_name_from_line(line) ==
    IF Strip(line) = << >> THEN None
    ELSE Some(TruncateRow(StripRowNumber(line)))

(***************************************************************************)
(* extract_table_ingredients                                               *)
(***************************************************************************)
headers == <<
    Lit(<<"I","N","G","R","E","D","I","E","N","T","E","S","/","I","N","G","R","E","D","I","E","N","T","S">>) \o WS0 \o Lit(<<"(","I","N","C","I",")">>),
    Lit(<<"I","N","G","R","E","D","I","E","N","T","E">>) \o WS1 \o Lit(<<"I","N","C","I">>),
    Lit(<<"L","i","s","t","a"," ","d","e"," ","i","n","g","r","e","d","i","e","n","t","e","s">>),
    Lit(<<"N","o",".">>) \o WS0 \o Lit(<<"I","N","C","I"," ","n","a","m","e">>) \o WS0 \o Lit(<<"C","A","S"," ","N","o",".">>) >>

stop_pats == <<
    NL \o Lit(<<"T","o","t","a","l">>) \o WB,
    NL \o Lit(<<"T","o","t","a","l"," ","%">>),
    NL \o Lit(<<"R","a","n","g","o","s"," ","d","e"," ","c","o","n","c","e","n","t","r","a","c","i","ó","n">>),
    NL \o Lit(<<"R","E","G","U","L","A","C","I">>) \o OneOf({"ó", "o"}) \o Lit(<<"N"," ","C","O","S","M","E","T","I","C","A">>),
    NL \o Lit(<<"A","N">>) \o OneOf({"á", "a"}) \o Lit(<<"L","I","S","I","S">>),
    NL \o Lit(<<"2",".">>) \o WS0 \o Lit(<<"F","r","a","g","r","a","n","c","e","/","P","e","r","f","u","m","e">>) >>

ColumnLabel == Opt({"%"}) \o WS0 \o Lit(<<"I","N","C","I">>) \o WB             \* ^%?\s*INCI\b

\* str.splitlines(): "\r\n" is one boundary, and a closing boundary opens no line
RECURSIVE SplitLines(_)
SplitLines(s) ==
    IF s = << >> THEN << >>
    ELSE LET n == RunLenNot(s, 1, LineBreaks)
             brk == IF n + 2 <= Len(s) /\ s[n + 1] = "\r" /\ s[n + 2] = "\n" THEN 2 ELSE 1
         IN <<Upto(s, n)>> \o (IF n = Len(s) THEN << >> ELSE SplitLines(From(s, n + brk)))

\* lines 144-148: the smallest m.start() over the section-end patterns
RECURSIVE StopPatLoop(_, _, _)
StopPatLoop(block, j, cut_pos) ==
    IF j > Len(stop_pats) THEN cut_pos
    ELSE LET ms == Search(stop_pats[j], block) IN
         IF ms.found /\ ms.start < cut_pos
         THEN StopPatLoop(block, j + 1, ms.start)
         ELSE StopPatLoop(block, j + 1, cut_pos)

\* lines 144-149: block[:cut_pos]
CutBlock(block) == Upto(block, StopPatLoop(block, 1, Len(block)))

MinNameLen == 3

\* lines 152-168: the names one raw line adds to all_names
RowNames(hpat, raw_line) ==
    LET line == Strip(raw_line) IN
    IF line = << >> THEN << >>
    ELSE IF Search(hpat, line).found THEN << >>
    ELSE IF MatchesAtStart(ColumnLabel, line) THEN << >>
    ELSE LET name == _extract_name_from_line(line) IN
         IF ~Truthy(name) THEN << >>
         ELSE IF Len(name.val) < MinNameLen THEN << >>
         ELSE <<name.val>>

\* lines 151-168: the loop over the lines of a block
RECURSIVE BlockNames(_, _)
BlockNames(hpat, lines) ==
    IF lines = << >> THEN << >>
    ELSE RowNames(hpat, Head(lines)) \o BlockNames(hpat, Tail(lines))

\* lines 129-168: what header h adds to all_names
HeaderNames(t, h) ==
    LET m == Search(headers[h], t) IN
    IF ~m.found THEN << >>
    ELSE BlockNames(headers[h], SplitLines(CutBlock(From(t, m.stop))))

\* the loop left after the first header that matches
RECURSIVE HeaderLoop_firstOnly(_, _)
HeaderLoop_firstOnly(t, h) ==
    IF h > Len(headers) THEN << >>
    ELSE IF Search(headers[h], t).found THEN HeaderNames(t, h)
    ELSE HeaderLoop_firstOnly(t, h + 1)

\* lines 128-168: the loop over the header patterns, at header h
RECURSIVE HeaderLoop(_, _)
HeaderLoop(t, h) ==
    IF h > Len(headers) THEN << >>
    ELSE HeaderNames(t, h) \o HeaderLoop(t, h + 1)

\* a name kept at its last place instead of its first
RECURSIVE Unique_lastPlace(_)
Unique_lastPlace(names) ==
    IF names = << >> THEN << >>
    ELSE IF \E i \in 2..Len(names) : names[i] = Head(names)
         THEN Unique_lastPlace(Tail(names))
         ELSE <<Head(names)>> \o Unique_lastPlace(Tail(names))

\* lines 173-178: seen / unique, the loop at name i
RECURSIVE UniqueLoop(_, _, _, _)
UniqueLoop(names, i, seen, unique) ==
    IF i > Len(names) THEN unique
    ELSE IF names[i] \notin seen
         THEN UniqueLoop(names, i + 1, seen \cup {names[i]}, Append(unique, names[i]))
         ELSE UniqueLoop(names, i + 1, seen, unique)

Unique(names) == UniqueLoop(names, 1, {}, << >>)

all_names(t) == IF t = << >> THEN << >> ELSE HeaderLoop(t, 1)

CommaSpace == <<","," ">>

extract_table_ingredients(t) ==
    LET names == all_names(t) IN
    IF t = << >> THEN None
    ELSE IF names = << >> THEN None
    ELSE Some(Join(CommaSpace, Unique(names)))

(***************************************************************************)
(* The Text Recovery Service: pypdf, pdf2image and pytesseract.  A         *)
(* document is what they yield for its path:                               *)
(*   native: the pages' extract_text() values, or Unreadable when          *)
(*           PdfReader or extract_text raises;                             *)
(*   scan:   the text image_to_string gives for each page image, or the    *)
(*           call that raises, convert_from_path or image_to_string.       *)
(***************************************************************************)
Unreadable == [ok |-> FALSE, pages |-> << >>]
Readable(pages) == [ok |-> TRUE, pages |-> pages]
ScanFails(op) == [fails |-> op, pages |-> << >>]
Scanned(pages) == [fails |-> "nothing", pages |-> pages]

\* line 17: page.extract_text() or ""
RECURSIVE PagesText(_)
PagesText(pages) ==
    IF pages = << >> THEN << >>
    ELSE <<IF Truthy(Head(pages)) THEN Head(pages).val ELSE << >> >> \o PagesText(Tail(pages))

Newline == <<"\n">>

\* lines 12-19, for a document the decoder reads
extract_text_from_pdf(d) == Strip(Join(Newline, PagesText(d.native.pages)))

\* lines 22-33, for a document the rasterizer and the OCR engine handle
extract_text_with_ocr(d) == Strip(Join(Newline, d.scan.pages))

OcrThreshold == 40

\* the test with the threshold itself taken as too short
NeedsOcr_le(t) == Len(t) <= OcrThreshold

\* line 187
NeedsOcr(t) == Len(t) < OcrThreshold

\* an except clause around the service calls that reports "not found"
Raise_swallowed == "returned"

\* lines 185 and 188 stand in no try block: what a service raises leaves
\* extract_ingredients_from_pdf, and build_ingredients_df, uncaught
Raise == "raised"

\* line 191 without its return: the inline result is dropped
AfterInline_noReturn(ing) == [pc |-> "table", result |-> None]

\* lines 191-192
AfterInline(ing) ==
    IF Truthy(ing) THEN [pc |-> "returned", result |-> ing]
    ELSE [pc |-> "table", result |-> None]

\* lines 195-198
AfterTable(ing) ==
    IF Truthy(ing) THEN [pc |-> "returned", result |-> ing]
    ELSE [pc |-> "returned", result |-> None]

Call(op, in, ret) == [op |-> op, in |-> in, out |-> ret]

(***************************************************************************)
(* The documents of the model                                              *)
(***************************************************************************)
MaxFill == 14

\* a first line of n filler characters
Filler(n) == IF n = 0 THEN << >> ELSE [i \in 1..n |-> "x"] \o Newline

Bodies == {
    << >>,
    <<"A","q","u","a",","," ","G","l","y","c","e","r","i","n">>,
    <<"I","n","g","r","e","d","i","e","n","t","s",":"," ","A","q","u","a",","," ","G","l","y","c","e","r","i","n",".">>,
    <<"L","i","s","t","a"," ","d","e"," ","i","n","g","r","e","d","i","e","n","t","e","s","\n",".",".",".">>,
    <<"L","i","s","t","a"," ","d","e"," ","i","n","g","r","e","d","i","e","n","t","e","s","\n","A","q","u","a","\n","1","."," ","A","q","u","a"," ","7","7","3","2","-","1","8","-","5"," ","0",".","5">>,
    <<"I","n","g","r","e","d","i","e","n","t","e","s",":"," ","A","q","u","a","\n","L","i","s","t","a"," ","d","e"," ","i","n","g","r","e","d","i","e","n","t","e","s","\n","G","l","y","c","e","r","i","n">> }

NativeTexts == {Filler(n) \o b : n \in 0..MaxFill, b \in Bodies}

\* the text on one page; on a first page, followed by a page without text
Natives ==
    {Unreadable} \cup {Readable(<<Some(t)>>) : t \in NativeTexts}
                 \cup {Readable(<<Some(t), None>>) : t \in NativeTexts}

Scans == {
    ScanFails("rasterize"),
    ScanFails("recognize"),
    Scanned(<< << >> >>),
    Scanned(<<<<"I","N","G","R","E","D","I","E","N","T","S"," ","-"," ","C","i","t","r","i","c"," ","A","c","i","d","\n","W","a","r","n","i","n","g",":"," ","f","l","a","m","m","a","b","l","e","\n">>>>),
    Scanned(<<<<"L","i","s","t","a"," ","d","e"," ","i","n","g","r","e","d","i","e","n","t","e","s">>, <<".",".",".">>>>) }

Documents == [native : Natives, scan : Scans]

(***************************************************************************)
(* extract_ingredients_from_pdf, one action per statement                  *)
(***************************************************************************)
Init ==
    /\ doc \in Documents
    /\ pc = "start"
    /\ text = << >>
    /\ ingredients = None
    /\ result = None
    /\ calls = << >>
    /\ arg = << >>
    /\ out = None

\* line 185
DecodeNative ==
    /\ pc = "start"
    /\ IF doc.native.ok
       THEN /\ text' = extract_text_from_pdf(doc)
            /\ calls' = Append(calls, Call("decode_native", << >>, Some(extract_text_from_pdf(doc))))
            /\ pc' = "length"
       ELSE /\ text' = text
            /\ calls' = Append(calls, Call("decode_native", << >>, None))
            /\ pc' = Raise
    /\ UNCHANGED <<doc, ingredients, result, arg, out>>

\* line 187
LengthTest ==
    /\ pc = "length"
    /\ pc' = IF NeedsOcr(text) THEN "ocr" ELSE "inline"
    /\ UNCHANGED <<doc, text, ingredients, result, calls, arg, out>>

\* line 188
OcrFallback ==
    /\ pc = "ocr"
    /\ IF doc.scan.fails = "nothing"
       THEN /\ text' = extract_text_with_ocr(doc)
            /\ calls' = Append(calls, Call("ocr", << >>, Some(extract_text_with_ocr(doc))))
            /\ pc' = "inline"
       ELSE /\ text' = text
            /\ calls' = Append(calls, Call("ocr", << >>, None))
            /\ pc' = Raise
    /\ UNCHANGED <<doc, ingredients, result, arg, out>>

\* lines 190-192
InlineStep ==
    /\ pc = "inline"
    /\ ingredients' = extract_inline_ingredients(text)
    /\ calls' = Append(calls, Call("inline", text, ingredients'))
    /\ pc' = AfterInline(ingredients').pc
    /\ result' = AfterInline(ingredients').result
    /\ UNCHANGED <<doc, text, arg, out>>

\* lines 194-198
TableStep ==
    /\ pc = "table"
    /\ ingredients' = extract_table_ingredients(text)
    /\ calls' = Append(calls, Call("table", text, ingredients'))
    /\ pc' = AfterTable(ingredients').pc
    /\ result' = AfterTable(ingredients').result
    /\ UNCHANGED <<doc, text, arg, out>>

Next == DecodeNative \/ LengthTest \/ OcrFallback \/ InlineStep \/ TableStep

Spec == Init /\ [][Next]_vars

(***************************************************************************)
(* The functions called on their own: the argument is drawn from a bounded *)
(* set of strings, and the one action is the call.                         *)
(***************************************************************************)
RECURSIVE Concat(_)
Concat(parts) == IF parts = << >> THEN << >> ELSE Head(parts) \o Concat(Tail(parts))

SeqsUpTo(S, n) == UNION {[1..k -> S] : k \in 0..n}

UnitInit(args) ==
    /\ arg \in args
    /\ out = None
    /\ pc = "call"
    /\ doc = [native |-> Unreadable, scan |-> ScanFails("rasterize")]
    /\ text = << >>
    /\ ingredients = None
    /\ result = None
    /\ calls = << >>

UnitCall(ret) ==
    /\ pc = "call"
    /\ out' = ret
    /\ pc' = "done"
    /\ UNCHANGED <<doc, text, ingredients, result, calls, arg>>

\* clean_ingredients_string(arg)
MaxCleanLen == 4
CleanChars == {" ", "\n", "\f", ".", ",", "a"}
CallClean == UnitCall(Some(clean_ingredients_string(arg)))
SpecClean == UnitInit(SeqsUpTo(CleanChars, MaxCleanLen)) /\ [][CallClean]_vars

\* _extract_name_from_line(arg)
MaxLinePieces == 4
LinePieces == {<<"1","."," ">>, <<"1","2"," ">>, <<"A","q","u","a">>, <<" ","7","7","3","2","-","1","8","-","5">>, <<" ","0",".","5">>, <<" ","c",".","s",".","p",".">>, <<" ">>}
LineArgs == {Concat(ps) : ps \in SeqsUpTo(LinePieces, MaxLinePieces)}
CallNameFromLine == UnitCall(_extract_name_from_line(arg))
SpecLine == UnitInit(LineArgs) /\ [][CallNameFromLine]_vars

\* extract_inline_ingredients(arg)
MaxInlinePieces == 3
InlinePieces == {
    <<"I","n","g","r","e","d","i","e","n","t","s",":"," ">>, <<"I","n","g","r","e","d","i","e","n","t","s",":">>, <<"i","n","g","r","e","d","i","e","n","t","e","s"," ","-"," ","A","g","u","a">>, <<"A","q","u","a",","," ","G","l","y","c","e","r","i","n",".">>, <<"x">>,
    <<"\n","M","a","d","e"," ","i","n"," ","S","p","a","i","n">>, <<"\n","w","w","w",".","x",".","c","o","m">>, <<"\n","C","i","t","r","i","c"," ","A","c","i","d">>, <<" ","."," ">> }
InlineArgs == {Concat(ps) : ps \in SeqsUpTo(InlinePieces, MaxInlinePieces)}
CallInline == UnitCall(extract_inline_ingredients(arg))
SpecInline == UnitInit(InlineArgs) /\ [][CallInline]_vars

\* extract_table_ingredients(arg)
MaxTablePieces == 3
TablePieces == {
    <<"I","N","G","R","E","D","I","E","N","T","E","S","/","I","N","G","R","E","D","I","E","N","T","S"," ","(","I","N","C","I",")">>, <<"\n","L","i","s","t","a"," ","d","e"," ","i","n","g","r","e","d","i","e","n","t","e","s","\n","A","q","u","a">>, <<"\n","A","q","u","a","\n","G","l","y","c","e","r","i","n">>,
    <<"\n","G","l","y","c","e","r","i","n","\n","T","o","t","a","l"," ","1","0","0","%","\n","P","a","r","f","u","m">>, <<"\n","1","."," ","A","q","u","a"," ","7","7","3","2","-","1","8","-","5"," ","0",".","5">>, <<"\n","T","o","t","a","l"," ","1","0","0","%">>, <<"\n","a","n","á","l","i","s","i","s">>,
    <<"\n","%"," ","I","N","C","I","\n","\n">> }
TableArgs == {Concat(ps) : ps \in SeqsUpTo(TablePieces, MaxTablePieces)}
CallTable == UnitCall(extract_table_ingredients(arg))
SpecTable == UnitInit(TableArgs) /\ [][CallTable]_vars

(***************************************************************************)
(* Properties of extract_ingredients_from_pdf (Spec)                       *)
(***************************************************************************)
CallsOf(op) == SelectSeq(calls, LAMBDA c : c.op = op)
\* the trimmed text of the native decoder, from the document itself
NativeText == Strip(Join(Newline, PagesText(doc.native.pages)))
\* the text the OCR path gives, from the document itself
OcrText == Strip(Join(Newline, doc.scan.pages))
PastLengthTest == pc \in {"inline", "table", "returned"}

\* C1: the result is the inline extractor's whenever that yields a string;
\* the tabular extractor is called only after the inline extractor signalled
\* absence, on the same text, and then its result is returned as it is; the
\* result is absence exactly when both signalled absence; it is always the
\* output of one of the two calls.
C1_InlineThenTable ==
    LET inl == CallsOf("inline")
        tab == CallsOf("table")
    IN /\ Len(inl) <= 1 /\ Len(tab) <= 1
       /\ tab # << >> =>
            /\ inl # << >> /\ ~inl[1].out.some /\ tab[1].in = inl[1].in
            /\ \E i, j \in DOMAIN calls : i < j /\ calls[i].op = "inline" /\ calls[j].op = "table"
       /\ pc = "returned" =>
            /\ inl # << >>
            /\ inl[1].out.some => tab = << >> /\ result = inl[1].out
            /\ ~inl[1].out.some => tab # << >> /\ result = tab[1].out
            /\ (result = None) <=> (~inl[1].out.some /\ tab # << >> /\ ~tab[1].out.some)

\* both extractors find something in the text, and the inline result is returned
C1_Witness ==
    /\ pc = "returned"
    /\ extract_inline_ingredients(text).some
    /\ extract_table_ingredients(text).some
    /\ extract_table_ingredients(text) # extract_inline_ingredients(text)
    /\ result = extract_inline_ingredients(text)

\* C2: OCR is called exactly when the trimmed native text is shorter than 40
\* characters (39 calls it, 40 does not); it is called before either
\* extractor, and the extractors then read the OCR text, not the native text.
C2_OcrIffShort ==
    LET ocr == CallsOf("ocr") IN
    /\ ocr # << >> => doc.native.ok /\ Len(NativeText) < 40
    /\ PastLengthTest =>
         /\ (ocr # << >>) <=> (Len(NativeText) < 40)
         /\ Len(NativeText) = 39 => ocr # << >>
         /\ Len(NativeText) = 40 => ocr = << >>
    /\ \A i \in DOMAIN calls : calls[i].op \in {"inline", "table"} =>
         IF Len(NativeText) < 40
         THEN /\ \E j \in 1..(i - 1) : calls[j].op = "ocr" /\ calls[j].out = Some(OcrText)
              /\ calls[i].in = OcrText
         ELSE calls[i].in = NativeText

\* a native text of 39 characters: OCR has run and the extractors read its text
C2_Witness ==
    /\ pc = "returned"
    /\ Len(NativeText) = 39
    /\ CallsOf("ocr") # << >>
    /\ CallsOf("inline")[1].in = OcrText
    /\ OcrText # NativeText
    /\ extract_inline_ingredients(NativeText) # extract_inline_ingredients(OcrText)

\* C4: a returned ingredient string is never empty after normalization.
C4_NeverEmptyNormalized ==
    pc = "returned" /\ result.some => clean_ingredients_string(result.val) # << >>

\* C6: a failure of the native decoder, the rasterizer or the OCR engine ends
\* the call in the error outcome: no service is called twice, the decoder's
\* failure calls no OCR, no extractor runs, and nothing is returned.  Absence
\* is returned only when the text was recovered and both extractors signalled
\* absence, as they do on the empty text.
C6_ErrorIsNotAbsence ==
    LET dec == CallsOf("decode_native")
        ocr == CallsOf("ocr")
        inl == CallsOf("inline")
        tab == CallsOf("table")
        failed == \E i \in DOMAIN calls : calls[i].op \in {"decode_native", "ocr"} /\ ~calls[i].out.some
    IN /\ Len(dec) <= 1 /\ Len(ocr) <= 1
       /\ dec # << >> /\ ~doc.native.ok => ~dec[1].out.some /\ ocr = << >>
       /\ ocr # << >> /\ doc.scan.fails # "nothing" => ~ocr[1].out.some
       /\ failed => pc = "raised" /\ inl = << >> /\ tab = << >> /\ calls[Len(calls)].out = None
       /\ pc = "raised" => failed
       /\ pc = "returned" /\ result = None =>
            /\ ~failed /\ doc.native.ok
            /\ inl # << >> /\ inl[1].out = None
            /\ tab # << >> /\ tab[1].out = None
       /\ pc = "returned" /\ text = << >> => result = None

\* the native decoder has failed: the call has ended in the error outcome
C6_Witness ==
    /\ pc = "raised"
    /\ ~doc.native.ok
    /\ Len(calls) = 1

(***************************************************************************)
(* C9: clean_ingredients_string (SpecClean)                                *)
(***************************************************************************)
\* C9: normalization is idempotent: normalizing a normalized string changes
\* nothing.
C9_CleanIdempotent ==
    pc = "done" => clean_ingredients_string(out.val) = out.val

\* a string that normalization has shortened to something non-empty
C9_Witness ==
    pc = "done" /\ out.val # << >> /\ Len(out.val) + 2 <= Len(arg)

(***************************************************************************)
(* C8: _extract_name_from_line (SpecLine)                                  *)
(***************************************************************************)
\* the three markers of a row, each by its shape at position i of l
CasAt(l, i) ==
    /\ IsSpace(l[i])
    /\ \E n \in 2..7 :
         /\ i + n + 5 <= Len(l)
         /\ \A d \in 1..n : IsDigit(l[i + d])
         /\ l[i + n + 1] = "-" /\ IsDigit(l[i + n + 2]) /\ IsDigit(l[i + n + 3])
         /\ l[i + n + 4] = "-" /\ IsDigit(l[i + n + 5])
         /\ (i + n + 5 = Len(l) \/ ~IsWord(l[i + n + 6]))
DecimalAt(l, i) ==
    /\ IsSpace(l[i])
    /\ \E n \in 1..Len(l) :
         /\ i + n + 2 <= Len(l)
         /\ \A d \in 1..n : IsDigit(l[i + d])
         /\ l[i + n + 1] \in {".", ","} /\ IsDigit(l[i + n + 2])
CspAt(l, i) ==
    /\ IsSpace(l[i])
    /\ i + 6 <= Len(l)
    /\ <<Lower(l[i + 1]), l[i + 2], Lower(l[i + 3]), l[i + 4], Lower(l[i + 5]), l[i + 6]>> = <<"c",".","s",".","p",".">>
CasPlaces(l) == {i \in DOMAIN l : CasAt(l, i)}
DecimalPlaces(l) == {i \in DOMAIN l : DecimalAt(l, i)}
CspPlaces(l) == {i \in DOMAIN l : CspAt(l, i)}
Least(S) == CHOOSE i \in S : \A j \in S : i <= j

\* the row without its number: blanks, digits, an optional "." or "-", blanks
WithoutRowNumber(l) ==
    LET a == RunLen(l, 1, WhiteSpace)
        d == RunLen(l, a + 1, Digits)
        p == IF a + d + 1 <= Len(l) /\ l[a + d + 1] \in {".", "-"} THEN 1 ELSE 0
        w == RunLen(l, a + d + p + 1, WhiteSpace)
    IN IF d >= 1 /\ w >= 1 THEN From(l, a + d + p + w) ELSE l

\* the row cut before the marker of the highest rank present, at that
\* marker's leftmost place
CandidateName(l) ==
    IF CasPlaces(l) # {} THEN Strip(Upto(l, Least(CasPlaces(l)) - 1))
    ELSE IF DecimalPlaces(l) # {} THEN Strip(Upto(l, Least(DecimalPlaces(l)) - 1))
    ELSE IF CspPlaces(l) # {} THEN Strip(Upto(l, Least(CspPlaces(l)) - 1))
    ELSE Strip(l)

\* C8: once the row number is stripped, the row is cut at the marker of the
\* highest rank that occurs anywhere in it, CAS number before decimal quantity
\* before "c.s.p.", wherever the lower ranks occur; with no marker the whole
\* row is the name.  "1. Aqua 7732-18-5 0.5" gives "Aqua".
C8_RowPriority ==
    pc = "done" =>
      /\ Strip(arg) # << >> => out = Some(CandidateName(WithoutRowNumber(arg)))
      /\ arg = <<"1","."," ","A","q","u","a"," ","7","7","3","2","-","1","8","-","5"," ","0",".","5">> => out = Some(<<"A","q","u","a">>)

\* a decimal quantity stands left of a CAS number, and the row is cut at the
\* CAS number
C8_Witness ==
    /\ pc = "done"
    /\ arg = <<"1","."," ","A","q","u","a"," ","0",".","5"," ","7","7","3","2","-","1","8","-","5">>
    /\ out = Some(<<"A","q","u","a"," ","0",".","5">>)

(***************************************************************************)
(* C3, C5: extract_inline_ingredients (SpecInline)                         *)
(***************************************************************************)
\* the offsets at which a stop marker starts in w
MarkerStarts(w) ==
    LET found == {m \in {Search(STOP_MARKERS[j], w) : j \in DOMAIN STOP_MARKERS} : m.found} IN
    {m.start : m \in found}
\* the offset of the leftmost stop marker of w, len(w) when it has none
EarliestMarker(w) ==
    LET starts == MarkerStarts(w) IN
    IF starts = {} THEN Len(w) ELSE Least(starts)
\* a label pattern up to its separator, without the closing \s*(.+)
LabelOf(p) == SubSeq(patterns[p], 1, Len(patterns[p]) - 2)
\* the text after the separator of the label that pattern p finds in t
AfterLabel(t, p) ==
    From(t, MatchFrom(t, Search(patterns[p], t).start + 1, LabelOf(p), 1) - 1)

\* C3: with a stop marker after the label, the returned string excludes the
\* marker and all that follows the leftmost marker: it is the normalized text
\* between the label's separator and the leftmost stop marker after it,
\* whichever label pattern matched.
C3_ExcludesFromEarliestMarker ==
    pc = "done" /\ out.some =>
      \E p \in DOMAIN patterns :
        /\ Search(patterns[p], arg).found
        /\ out.val = clean_ingredients_string(
                        Upto(AfterLabel(arg, p), EarliestMarker(AfterLabel(arg, p))))

\* the text t holds the characters of s, whatever their case, from position i
HoldsAt(t, i, s) ==
    /\ i + Len(s) - 1 <= Len(t)
    /\ \A k \in DOMAIN s : Lower(t[i + k - 1]) = Lower(s[k])
IngredientsLabel == <<"I","n","g","r","e","d","i","e","n","t","s",":"," ">>
HasNoMarker(x) == MarkerStarts(x) = {}

\* C5 as the specification states it: every text holding "Ingredients: X",
\* X without a stop marker, gives normalize(X) (absence where that is empty).
C5_AnyOccurrence ==
    pc = "done" =>
      \A i \in DOMAIN arg :
        LET x == From(arg, i + Len(IngredientsLabel) - 1) IN
        HoldsAt(arg, i, IngredientsLabel) /\ HasNoMarker(x) =>
          IF clean_ingredients_string(x) = << >> THEN out = None
          ELSE out = Some(clean_ingredients_string(x))

\* C5: a text holding "Ingredients: X", the label at a word boundary and no
\* "ingredient" before it, X without a stop marker and normalize(X) not
\* empty, gives normalize(X).
C5_FirstLabel ==
    pc = "done" =>
      \A i \in DOMAIN arg :
        LET x == From(arg, i + Len(IngredientsLabel) - 1) IN
        /\ HoldsAt(arg, i, IngredientsLabel)
        /\ i = 1 \/ ~IsWord(arg[i - 1])
        /\ \A j \in 1..(i - 1) : ~HoldsAt(arg, j, <<"i","n","g","r","e","d","i","e","n","t">>)
        /\ HasNoMarker(x)
        /\ clean_ingredients_string(x) # << >>
        => out = Some(clean_ingredients_string(x))

\* X of two lines: both are returned, the line break as one space
C5_Witness ==
    /\ pc = "done"
    /\ arg = <<"I","n","g","r","e","d","i","e","n","t","s",":"," ","A","q","u","a",","," ","G","l","y","c","e","r","i","n",".","\n","C","i","t","r","i","c"," ","A","c","i","d">>
    /\ out = Some(<<"A","q","u","a",","," ","G","l","y","c","e","r","i","n","."," ","C","i","t","r","i","c"," ","A","c","i","d">>)

(***************************************************************************)
(* C7, C10: extract_table_ingredients (SpecTable)                          *)
(***************************************************************************)
\* the names of a sequence at their first places, in that order
FirstPlaces(names) == {i \in DOMAIN names : \A j \in 1..(i - 1) : names[j] # names[i]}
KeepFirsts(names) ==
    [k \in 1..Cardinality(FirstPlaces(names)) |->
        names[CHOOSE i \in FirstPlaces(names) : Cardinality({j \in FirstPlaces(names) : j <= i}) = k]]

\* the offsets at which a section-end marker starts in block
SectionEnds(block) ==
    LET found == {m \in {Search(stop_pats[j], block) : j \in DOMAIN stop_pats} : m.found} IN
    {m.start : m \in found}
\* the block up to its leftmost section-end marker
UpToSectionEnd(block) ==
    LET ends == SectionEnds(block) IN
    IF ends = {} THEN block ELSE Upto(block, Least(ends))
\* the names of the rows between header h and the section end after it
NamesUnder(t, h) ==
    LET m == Search(headers[h], t) IN
    IF ~m.found THEN << >>
    ELSE BlockNames(headers[h], SplitLines(UpToSectionEnd(From(t, m.stop))))
\* the names under every header that matches, in the headers' order
NamesUnderAll(t) == NamesUnder(t, 1) \o NamesUnder(t, 2) \o NamesUnder(t, 3) \o NamesUnder(t, 4)

\* C7: the result holds each accumulated name once, at the place of its first
\* occurrence, the survivors joined with ", ".
C7_FirstOccurrenceOnce ==
    pc = "done" =>
      LET names == all_names(arg)
          kept == Unique(names)
      IN /\ \A i, j \in DOMAIN kept : i # j => kept[i] # kept[j]
         /\ kept = KeepFirsts(names)
         /\ names # << >> => out = Some(Join(CommaSpace, KeepFirsts(names)))

\* two rows reduce to the same name, which the result holds once, first
C7_Witness ==
    /\ pc = "done"
    /\ arg = <<"I","N","G","R","E","D","I","E","N","T","E","S","/","I","N","G","R","E","D","I","E","N","T","S"," ","(","I","N","C","I",")","\n","A","q","u","a","\n","G","l","y","c","e","r","i","n","\n","1","."," ","A","q","u","a"," ","7","7","3","2","-","1","8","-","5"," ","0",".","5">>
    /\ all_names(arg) = <<<<"A","q","u","a">>, <<"G","l","y","c","e","r","i","n">>, <<"A","q","u","a">>>>
    /\ out = Some(<<"A","q","u","a",","," ","G","l","y","c","e","r","i","n">>)

\* C10: every header pattern that matches is processed; the rows of a header
\* are the lines between its end and the leftmost section-end marker after
\* it; the names of all headers are accumulated in the headers' order, and
\* absence is signalled exactly when none was accumulated.  The text
\* "INGREDIENTES/INGREDIENTS (INCI)\nAqua\nGlycerin\nTotal 100%" gives
\* "Aqua, Glycerin".
C10_AllHeadersUpToSectionEnd ==
    pc = "done" =>
      LET under == NamesUnderAll(arg) IN
      /\ all_names(arg) = under
      /\ out = IF under = << >> THEN None ELSE Some(Join(CommaSpace, KeepFirsts(under)))
      /\ (out = None) <=> (under = << >>)
      /\ arg = <<"I","N","G","R","E","D","I","E","N","T","E","S","/","I","N","G","R","E","D","I","E","N","T","S"," ","(","I","N","C","I",")","\n","A","q","u","a","\n","G","l","y","c","e","r","i","n","\n","T","o","t","a","l"," ","1","0","0","%">>
           => out = Some(<<"A","q","u","a",","," ","G","l","y","c","e","r","i","n">>)

\* two headers match: the rows of the first pattern's header come first, and
\* the row after the section end is left out
C10_Witness ==
    /\ pc = "done"
    /\ arg = <<"I","N","G","R","E","D","I","E","N","T","E","S","/","I","N","G","R","E","D","I","E","N","T","S"," ","(","I","N","C","I",")","\n","L","i","s","t","a"," ","d","e"," ","i","n","g","r","e","d","i","e","n","t","e","s","\n","A","q","u","a","\n","G","l","y","c","e","r","i","n","\n","T","o","t","a","l"," ","1","0","0","%","\n","P","a","r","f","u","m">>
    /\ NamesUnder(arg, 1) = <<<<"L","i","s","t","a"," ","d","e"," ","i","n","g","r","e","d","i","e","n","t","e","s">>, <<"A","q","u","a">>, <<"G","l","y","c","e","r","i","n">>>>
    /\ NamesUnder(arg, 3) = <<<<"A","q","u","a">>, <<"G","l","y","c","e","r","i","n">>>>
    /\ out = Some(<<"L","i","s","t","a"," ","d","e"," ","i","n","g","r","e","d","i","e","n","t","e","s",","," ","A","q","u","a",","," ","G","l","y","c","e","r","i","n">>)
====
